---- MODULE Spec2Model ----
(***************************************************************************)
(* Model of las.py, the League client API spike: credential discovery      *)
(* (lockfile and process-argument strategies), the authenticated session   *)
(* check, the gameflow poll and the live-client request, together with the *)
(* top-level script that runs them once, in order.                         *)
(*                                                                         *)
(* Text is modelled as a sequence of one-character strings, so that        *)
(* splitting, stripping, lower-casing, containment and formatting are      *)
(* computed on characters as Python computes them.  Python's None is the   *)
(* empty tuple and a present value x is the one-element tuple <<x>>.       *)
(***************************************************************************)
EXTENDS Integers, Sequences, FiniteSets, TLC

\* ------------------------------------------------------------------ bounds
\* longest lockfile text enumerated exhaustively over {":", "7"}
MaxLen == 6
\* longest live-client response body enumerated exhaustively over {quote, "A"}
MaxBody == 4
\* longest --key=value value enumerated exhaustively over {"=", "7"}
MaxVal == 2
\* most launch arguments of the UI process
MaxArgs == 2

\* ------------------------------------------------------- program constants
HTTP_OK == 200
NFields == 5

\* --------------------------------------------------------------- optionals
None == <<>>
Some(x) == <<x>>
Get(o) == o[1]

\* -------------------------------------------------------------------- text
BoundedSeqs(S, n) == UNION {[1..k -> S] : k \in 0..n}

Q == "\""

\* needle in hay (Python's `in` on str)
Contains(hay, needle) ==
    \E i \in 1..(Len(hay) - Len(needle) + 1) :
        SubSeq(hay, i, i + Len(needle) - 1) = needle

\* str.lower(), on the letters the process names use
LowerChar(c) ==
    CASE c = "L" -> "l"
      [] c = "C" -> "c"
      [] c = "U" -> "u"
      [] c = "N" -> "n"
      [] OTHER -> c

Lower(s) == [i \in 1..Len(s) |-> LowerChar(s[i])]

\* index of the first sep in s, 0 when there is none
FirstIndex(s, sep) ==
    IF \E i \in 1..Len(s) : s[i] = sep
    THEN CHOOSE i \in 1..Len(s) : s[i] = sep /\ \A j \in 1..(i - 1) : s[j] # sep
    ELSE 0

RECURSIVE Split(_, _)
\* str.split(sep): every occurrence of sep separates two fields, empty ones kept
Split(s, sep) ==
    LET i == FirstIndex(s, sep)
    IN  IF i = 0 THEN <<s>>
        ELSE <<SubSeq(s, 1, i - 1)>> \o Split(SubSeq(s, i + 1, Len(s)), sep)

RECURSIVE LStrip(_, _)
LStrip(s, ch) ==
    IF Len(s) > 0 /\ s[1] = ch THEN LStrip(Tail(s), ch) ELSE s

RECURSIVE RStrip(_, _)
RStrip(s, ch) ==
    IF Len(s) > 0 /\ s[Len(s)] = ch THEN RStrip(SubSeq(s, 1, Len(s) - 1), ch) ELSE s

\* a variant that removes at most one character on each side
StripOnce(s, ch) ==
    LET l == IF Len(s) > 0 /\ s[1] = ch THEN Tail(s) ELSE s
    IN  IF Len(l) > 0 /\ l[Len(l)] = ch THEN SubSeq(l, 1, Len(l) - 1) ELSE l

\* str.strip(ch): the whole run of ch is removed on each side
Strip(s, ch) == RStrip(LStrip(s, ch), ch)

\* repr() of a str holding neither quote character nor escapes
ReprStr(s) == <<"'">> \o s \o <<"'">>

\* ---------------------------------------------------------------- literals
ClientExeName == <<"l","e","a","g","u","e","c","l","i","e","n","t",".","e","x","e">>
UxExeName == <<"l","e","a","g","u","e","c","l","i","e","n","t","u","x",".","e","x","e">>
N_LeagueClient == <<"L","e","a","g","u","e","C","l","i","e","n","t",".","e","x","e">>
N_LeagueClientUx == <<"L","e","a","g","u","e","C","l","i","e","n","t","U","x",".","e","x","e">>
N_Notepad == <<"n","o","t","e","p","a","d",".","e","x","e">>
KeyAppPort == <<"-","-","a","p","p","-","p","o","r","t">>
KeyAuthToken == <<"-","-","r","e","m","o","t","i","n","g","-","a","u","t","h","-","t","o","k","e","n">>
KeyNoSandbox == <<"-","-","n","o","-","s","a","n","d","b","o","x">>
Https == <<"h","t","t","p","s">>
ReprHead == <<"L","o","c","k","f","i","l","e","C","o","n","t","e","n","t","s","(","p","r","o","c","e","s","s","_","n","a","m","e","=">>
ReprPid == <<","," ","p","r","o","c","e","s","s","_","i","d","=">>
ReprPort == <<","," ","a","p","i","_","p","o","r","t","=">>
ReprPassword == <<","," ","a","p","i","_","p","a","s","s","w","o","r","d","=">>
ReprProtocol == <<","," ","a","p","i","_","p","r","o","t","o","c","o","l","=">>
MsgNotDetected == <<"L","e","a","g","u","e"," ","c","l","i","e","n","t"," ","l","o","c","k","f","i","l","e"," ","n","o","t"," ","d","e","t","e","c","t","e","d">>
MsgUsername == <<"U","s","e","r","n","a","m","e",":"," ">>
MsgInGame == <<"I","n"," ","G","a","m","e">>
MsgNotInGame == <<"N","o","t"," ","I","n"," ","G","a","m","e">>
MsgInGameAs == <<"I","n"," ","G","a","m","e"," ","A","s",":"," ">>
RiotLogin == <<"r","i","o","t",":">>
LivePort == <<"2","9","9","9">>
InProgressBody == <<"\"","I","n","P","r","o","g","r","e","s","s","\"">>

\* ------------------------------------------------------------------ base64
B64Chars == <<"A","B","C","D","E","F","G","H","I","J","K","L","M","N","O","P","Q","R","S","T","U","V","W","X","Y","Z","a","b","c","d","e","f","g","h","i","j","k","l","m","n","o","p","q","r","s","t","u","v","w","x","y","z","0","1","2","3","4","5","6","7","8","9","+","/">>

\* bytes(s, 'utf-8'), on the characters a login string of the model holds
Utf8Byte(c) ==
    CASE c = "r" -> 114 [] c = "i" -> 105 [] c = "o" -> 111 [] c = "t" -> 116
      [] c = ":" -> 58  [] c = "0" -> 48  [] c = "3" -> 51  [] c = "5" -> 53
      [] c = "6" -> 54  [] c = "7" -> 55  [] c = "k" -> 107

Utf8(s) == [i \in 1..Len(s) |-> Utf8Byte(s[i])]

RECURSIVE B64Encode(_)
\* base64.standard_b64encode: three bytes to four characters, "=" padding
B64Encode(bs) ==
    IF Len(bs) = 0 THEN <<>>
    ELSE LET b1 == bs[1]
             b2 == IF Len(bs) >= 2 THEN bs[2] ELSE 0
             b3 == IF Len(bs) >= 3 THEN bs[3] ELSE 0
             n  == b1 * 65536 + b2 * 256 + b3
             c1 == B64Chars[(n \div 262144) + 1]
             c2 == B64Chars[((n \div 4096) % 64) + 1]
             c3 == B64Chars[((n \div 64) % 64) + 1]
             c4 == B64Chars[(n % 64) + 1]
         IN  IF Len(bs) = 1 THEN <<c1, c2, "=", "=">>
             ELSE IF Len(bs) = 2 THEN <<c1, c2, c3, "=">>
             ELSE <<c1, c2, c3, c4>> \o B64Encode(SubSeq(bs, 4, Len(bs)))

\* construct_basic_auth
ConstructBasicAuth(api_password) == B64Encode(Utf8(RiotLogin \o api_password))

\* -------------------------------------------------------------- exceptions
\* the classes an exception is an instance of
Bases(exc) ==
    CASE exc = "RuntimeError"      -> {"RuntimeError", "Exception"}
      [] exc = "FileNotFoundError" -> {"FileNotFoundError", "OSError", "Exception"}
      [] exc = "PermissionError"   -> {"PermissionError", "OSError", "Exception"}
      [] exc = "TypeError"         -> {"TypeError", "Exception"}
      [] exc = "KeyError"          -> {"KeyError", "LookupError", "Exception"}
      [] exc = "ConnectionError"   -> {"ConnectionError", "RequestException", "OSError", "Exception"}
      [] exc = "JSONDecodeError"   -> {"JSONDecodeError", "ValueError", "Exception"}

\* the class named by the top-level `except`
CaughtClass == "RuntimeError"

\* ------------------------------------------------------------- descriptors
\* a variant that ignores surplus positional arguments
LockfileContentsLax(args) ==
    IF Len(args) >= NFields
    THEN [exc |-> None,
          value |-> Some([process_name |-> args[1], process_id |-> args[2],
                          api_port |-> args[3], api_password |-> args[4],
                          api_protocol |-> args[5]])]
    ELSE [exc |-> Some("TypeError"), value |-> None]

\* a variant that takes the token before the port
LockfileContentsSwapped(args) ==
    IF Len(args) = NFields
    THEN [exc |-> None,
          value |-> Some([process_name |-> args[1], process_id |-> args[2],
                          api_port |-> args[4], api_password |-> args[3],
                          api_protocol |-> args[5]])]
    ELSE [exc |-> Some("TypeError"), value |-> None]

\* the dataclass constructor: five required positional arguments, no defaults
LockfileContents(args) ==
    IF Len(args) = NFields
    THEN [exc |-> None,
          value |-> Some([process_name |-> args[1], process_id |-> args[2],
                          api_port |-> args[3], api_password |-> args[4],
                          api_protocol |-> args[5]])]
    ELSE [exc |-> Some("TypeError"), value |-> None]

\* the dataclass's generated __repr__, for a descriptor of str fields
ReprLockfileContents(d) ==
    ReprHead \o ReprStr(d.process_name) \o ReprPid \o ReprStr(d.process_id)
      \o ReprPort \o ReprStr(d.api_port) \o ReprPassword \o ReprStr(d.api_password)
      \o ReprProtocol \o ReprStr(d.api_protocol) \o <<")">>

\* ------------------------------------------------------------------ inputs
\* the process table psutil.process_iter() walks, in its order
ClientA == [name |-> N_LeagueClient, pid |-> 11, exe |-> [dir |-> "C:/Riot/LoL", base |-> N_LeagueClient], cmdline |-> <<>>]
ClientB == [name |-> N_LeagueClient, pid |-> 12, exe |-> [dir |-> "D:/Games/LoL", base |-> N_LeagueClient], cmdline |-> <<>>]
UxNoArgs == [name |-> N_LeagueClientUx, pid |-> 13, exe |-> [dir |-> "C:/Riot/LoL", base |-> N_LeagueClientUx], cmdline |-> <<>>]
Notepad == [name |-> N_Notepad, pid |-> 14, exe |-> [dir |-> "C:/Windows", base |-> N_Notepad], cmdline |-> <<>>]

ProcTables ==
    {<<>>, <<Notepad>>, <<UxNoArgs>>, <<ClientA>>, <<Notepad, ClientA>>,
     <<ClientB, ClientA>>, <<UxNoArgs, ClientA>>}

RECURSIVE Join(_, _)
\* sep.join(fields)
Join(fields, sep) ==
    IF Len(fields) = 0 THEN <<>>
    ELSE IF Len(fields) = 1 THEN fields[1]
    ELSE fields[1] \o <<sep>> \o Join(Tail(fields), sep)

\* lockfiles as the client writes them, with good and bad ports and tokens
ClientLockfiles ==
    {Join(<<SubSeq(N_LeagueClient, 1, 12), <<"7">>, port, token, Https>>, ":") :
        port \in {<<"0">>, <<"5","7">>, <<"6","5","5","3","5">>, <<"6","5","5","3","6">>},
        token \in {<<>>, <<"t","0","k">>}}

\* what read() may return: every short text over the separator and one other
\* character, and the client's own lockfiles
LockfileTexts == BoundedSeqs({":", "7"}, MaxLen) \cup ClientLockfiles

\* what open() finds at the lockfile path
FileStates ==
    {[kind |-> "missing", text |-> <<>>], [kind |-> "denied", text |-> <<>>]}
      \cup {[kind |-> "text", text |-> t] : t \in LockfileTexts}

\* what requests.get may do: raise, or return a response.  The HTTP client and
\* the two local services are the environment, so every outcome is possible
\* for every request.
NoResponse == [exc |-> Some("ConnectionError"), status |-> 0, text |-> <<>>, json |-> None]
Response(status, text, json) == [exc |-> None, status |-> status, text |-> text, json |-> json]

SummonerResponses ==
    {NoResponse,
     Response(403, <<>>, None),
     Response(404, <<>>, None),
     Response(HTTP_OK, <<>>, None),
     Response(HTTP_OK, <<>>, Some([displayName |-> <<"A">>])),
     Response(HTTP_OK, <<>>, Some([displayName |-> <<"A">>, tagLine |-> <<"1">>]))}

PhaseBodies ==
    {InProgressBody,
     SubSeq(InProgressBody, 2, 11),
     SubSeq(InProgressBody, 1, 11),
     <<Q>> \o InProgressBody \o <<Q>>,
     InProgressBody \o <<" ">>,
     <<"\"","i","n","p","r","o","g","r","e","s","s","\"">>,
     <<"\"","N","o","n","e","\"">>,
     <<"\"","C","h","a","m","p","S","e","l","e","c","t","\"">>,
     <<>>}

PhaseResponses ==
    {NoResponse, Response(404, InProgressBody, None), Response(403, <<>>, None)}
      \cup {Response(HTTP_OK, b, None) : b \in PhaseBodies}

LiveBodies == BoundedSeqs({Q, "A"}, MaxBody)

LiveResponses ==
    {NoResponse, Response(404, <<Q, "A", Q>>, None)}
      \cup {Response(HTTP_OK, b, None) : b \in LiveBodies}

\* ------------------------------------------------------------------- state
VARIABLES
    pc,             \* the statement the script is at
    procs,          \* the process table
    lockfile_path,  \* find_league_client_lockfile's result
    file,           \* what open() found at that path
    lc,             \* the descriptor
    basic_auth,     \* the encoded login
    user,           \* get_current_user's result
    in_game,        \* is_user_in_game's result
    ingame_user,    \* get_ingame_user's result
    summoner_resp,  \* the answer to the current-summoner request
    phase_resp,     \* the answer to the gameflow-phase request
    live_resp,      \* the answer to the activeplayername request
    out,            \* the lines printed, in order
    requests,       \* the calls of requests.get, in order
    stages,         \* the pipeline stages entered, in order
    err,            \* the exception that ended the run uncaught
    exit_code,      \* the process's exit status
    ux_result       \* get_league_api_from_process's outcome

vars == <<pc, procs, lockfile_path, file, lc, basic_auth, user, in_game, ingame_user,
          summoner_resp, phase_resp, live_resp, out, requests, stages, err,
          exit_code, ux_result>>

runVars == <<pc, lockfile_path, file, lc, basic_auth, user, in_game, ingame_user,
             summoner_resp, phase_resp, live_resp, out, requests, stages, err,
             exit_code>>

InitRun ==
    /\ pc = "find"
    /\ lockfile_path = None
    /\ file = None
    /\ lc = None
    /\ basic_auth = None
    /\ user = None
    /\ in_game = None
    /\ ingame_user = None
    /\ summoner_resp = None
    /\ phase_resp = None
    /\ live_resp = None
    /\ out = <<>>
    /\ requests = <<>>
    /\ stages = <<>>
    /\ err = None
    /\ exit_code = None

Init ==
    /\ procs \in ProcTables
    /\ ux_result = None
    /\ InitRun

\* ------------------------------------------------------------ the functions
\* the processes whose lower-cased name contains sub, in table order
Matching(table, sub) == SelectSeq(table, LAMBDA p : Contains(Lower(p.name), sub))

\* find_league_client_lockfile: the first match's directory joined with "lockfile"
FindLeagueClientLockfile(table) ==
    LET found == Matching(table, ClientExeName)
    IN  IF Len(found) = 0
        THEN [exc |-> Some("RuntimeError"), value |-> None]
        ELSE [exc |-> None, value |-> Some([dir |-> found[1].exe.dir, base |-> "lockfile"])]

\* parse_league_lockfile: open, read, split on ':', construct
ParseLeagueLockfile(f) ==
    IF f.kind = "missing" THEN [exc |-> Some("FileNotFoundError"), value |-> None]
    ELSE IF f.kind = "denied" THEN [exc |-> Some("PermissionError"), value |-> None]
    ELSE LockfileContents(Split(f.text, ":"))

\* the endpoint and headers of a request (the `verify` argument, which only
\* selects the trust anchor, is left to the HTTP client)
Request(protocol, port, path, auth) ==
    [protocol |-> protocol, host |-> "127.0.0.1", port |-> port, path |-> path,
     authorization |-> auth]

BasicHeader(auth) == Some(<<"B","a","s","i","c"," ">> \o auth)

\* a variant that takes any answer for a good one
StatusErrorNever(r) == None

\* the check every request function makes on its response
StatusError(r) ==
    IF r.exc # None THEN r.exc
    ELSE IF r.status # HTTP_OK THEN Some("RuntimeError")
    ELSE None

\* get_current_user, given what requests.get did
GetCurrentUserResult(r) ==
    IF StatusError(r) # None THEN [exc |-> StatusError(r), value |-> None]
    ELSE IF r.json = None THEN [exc |-> Some("JSONDecodeError"), value |-> None]
    ELSE IF ~({"displayName", "tagLine"} \subseteq DOMAIN Get(r.json))
    THEN [exc |-> Some("KeyError"), value |-> None]
    ELSE [exc |-> None, value |-> Some(Get(r.json).displayName \o <<"#">> \o Get(r.json).tagLine)]

\* a variant that compares the body without its quotes
IsUserInGameResultUnquoted(r) ==
    IF StatusError(r) # None THEN [exc |-> StatusError(r), value |-> None]
    ELSE [exc |-> None, value |-> Some(Strip(r.text, Q) = Strip(InProgressBody, Q))]

\* is_user_in_game, given what requests.get did
IsUserInGameResult(r) ==
    IF StatusError(r) # None THEN [exc |-> StatusError(r), value |-> None]
    ELSE [exc |-> None, value |-> Some(r.text = InProgressBody)]

\* a variant that removes one quote on each side
GetIngameUserResultOnce(r) ==
    IF StatusError(r) # None THEN [exc |-> StatusError(r), value |-> None]
    ELSE [exc |-> None, value |-> Some(StripOnce(r.text, Q))]

\* get_ingame_user, given what requests.get did
GetIngameUserResult(r) ==
    IF StatusError(r) # None THEN [exc |-> StatusError(r), value |-> None]
    ELSE [exc |-> None, value |-> Some(Strip(r.text, Q))]

\* ---------------------------------------------------- the top-level script
\* an exception nothing catches: traceback, exit status 1
Uncaught(exc) ==
    /\ pc' = "aborted"
    /\ err' = Some(exc)
    /\ exit_code' = Some(1)

\* an exception raised inside the try block
RaisedInTry(exc) ==
    IF CaughtClass \in Bases(exc)
    THEN /\ out' = Append(out, MsgNotDetected)
         /\ pc' = "exited"
         /\ err' = None
         /\ exit_code' = Some(1)
    ELSE /\ out' = out
         /\ Uncaught(exc)

\* the inner call of the try block
Find ==
    /\ pc = "find"
    /\ stages' = Append(stages, "Locator")
    /\ LET res == FindLeagueClientLockfile(procs)
       IN  IF res.exc # None
           THEN /\ RaisedInTry(Get(res.exc))
                /\ lockfile_path' = None
           ELSE /\ lockfile_path' = res.value
                /\ pc' = "parse"
                /\ UNCHANGED <<out, err, exit_code>>
    /\ UNCHANGED <<procs, file, lc, basic_auth, user, in_game, ingame_user,
                   summoner_resp, phase_resp, live_resp, requests, ux_result>>

\* the outer call of the try block and the assignment to lc
Parse ==
    /\ pc = "parse"
    /\ stages' = Append(stages, "Resolver")
    /\ \E f \in FileStates :
          /\ file' = Some(f)
          /\ LET res == ParseLeagueLockfile(f)
             IN  IF res.exc # None
                 THEN /\ RaisedInTry(Get(res.exc))
                      /\ lc' = None
                 ELSE /\ lc' = res.value
                      /\ pc' = "print_lc"
                      /\ UNCHANGED <<out, err, exit_code>>
    /\ UNCHANGED <<procs, lockfile_path, basic_auth, user, in_game, ingame_user,
                   summoner_resp, phase_resp, live_resp, requests, ux_result>>

\* print(lc)
PrintLc ==
    /\ pc = "print_lc"
    /\ out' = Append(out, ReprLockfileContents(Get(lc)))
    /\ pc' = "get_current_user"
    /\ UNCHANGED <<procs, lockfile_path, file, lc, basic_auth, user, in_game,
                   ingame_user, summoner_resp, phase_resp, live_resp, requests,
                   stages, err, exit_code, ux_result>>

\* basic_auth = ...; user = get_current_user(...); print
GetCurrentUser ==
    /\ pc = "get_current_user"
    /\ stages' = Append(stages, "Validator")
    /\ LET d == Get(lc)
           auth == ConstructBasicAuth(d.api_password)
       IN  /\ basic_auth' = Some(auth)
           /\ requests' = Append(requests,
                  Request(d.api_protocol, d.api_port,
                          "/lol-summoner/v1/current-summoner", BasicHeader(auth)))
    /\ \E r \in SummonerResponses :
          /\ summoner_resp' = Some(r)
          /\ LET res == GetCurrentUserResult(r)
             IN  IF res.exc # None
                 THEN /\ Uncaught(Get(res.exc))
                      /\ UNCHANGED <<user, out>>
                 ELSE /\ user' = res.value
                      /\ out' = Append(out, MsgUsername \o Get(res.value))
                      /\ pc' = "is_user_in_game"
                      /\ UNCHANGED <<err, exit_code>>
    /\ UNCHANGED <<procs, lockfile_path, file, lc, in_game, ingame_user,
                   phase_resp, live_resp, ux_result>>

\* in_game = is_user_in_game(...); print
IsUserInGame ==
    /\ pc = "is_user_in_game"
    /\ stages' = Append(stages, "Poller")
    /\ LET d == Get(lc)
       IN  requests' = Append(requests,
               Request(d.api_protocol, d.api_port,
                       "/lol-gameflow/v1/gameflow-phase", BasicHeader(Get(basic_auth))))
    /\ \E r \in PhaseResponses :
          /\ phase_resp' = Some(r)
          /\ LET res == IsUserInGameResult(r)
             IN  IF res.exc # None
                 THEN /\ Uncaught(Get(res.exc))
                      /\ UNCHANGED <<in_game, out>>
                 ELSE /\ in_game' = res.value
                      /\ out' = Append(out, IF Get(res.value) THEN MsgInGame ELSE MsgNotInGame)
                      /\ pc' = "if_in_game"
                      /\ UNCHANGED <<err, exit_code>>
    /\ UNCHANGED <<procs, lockfile_path, file, lc, basic_auth, user, ingame_user,
                   summoner_resp, live_resp, ux_result>>

\* a variant of the last statement without its `if`
GetIngameUserAlways ==
    /\ pc = "if_in_game"
    /\ stages' = Append(stages, "Companion")
    /\ requests' = Append(requests,
           Request(Https, LivePort, "/liveclientdata/activeplayername", None))
    /\ \E r \in LiveResponses :
          /\ live_resp' = Some(r)
          /\ LET res == GetIngameUserResult(r)
             IN  IF res.exc # None
                 THEN /\ Uncaught(Get(res.exc))
                      /\ UNCHANGED <<ingame_user, out>>
                 ELSE /\ ingame_user' = res.value
                      /\ out' = Append(out, MsgInGameAs \o Get(res.value))
                      /\ pc' = "done"
                      /\ exit_code' = Some(0)
                      /\ UNCHANGED err
    /\ UNCHANGED <<procs, lockfile_path, file, lc, basic_auth, user, in_game,
                   summoner_resp, phase_resp, ux_result>>

\* if in_game: print(f"In Game As: {get_ingame_user()}")
GetIngameUser ==
    /\ pc = "if_in_game"
    /\ in_game = Some(TRUE)
    /\ stages' = Append(stages, "Companion")
    /\ requests' = Append(requests,
           Request(Https, LivePort, "/liveclientdata/activeplayername", None))
    /\ \E r \in LiveResponses :
          /\ live_resp' = Some(r)
          /\ LET res == GetIngameUserResult(r)
             IN  IF res.exc # None
                 THEN /\ Uncaught(Get(res.exc))
                      /\ UNCHANGED <<ingame_user, out>>
                 ELSE /\ ingame_user' = res.value
                      /\ out' = Append(out, MsgInGameAs \o Get(res.value))
                      /\ pc' = "done"
                      /\ exit_code' = Some(0)
                      /\ UNCHANGED err
    /\ UNCHANGED <<procs, lockfile_path, file, lc, basic_auth, user, in_game,
                   summoner_resp, phase_resp, ux_result>>

\* the `if` not taken: the script ends
Finish ==
    /\ pc = "if_in_game"
    /\ in_game = Some(FALSE)
    /\ pc' = "done"
    /\ exit_code' = Some(0)
    /\ UNCHANGED <<procs, lockfile_path, file, lc, basic_auth, user, in_game,
                   ingame_user, summoner_resp, phase_resp, live_resp, out, requests,
                   stages, err, ux_result>>

Next ==
    \/ Find
    \/ Parse
    \/ PrintLc
    \/ GetCurrentUser
    \/ IsUserInGame
    \/ GetIngameUser
    \/ Finish

Spec == Init /\ [][Next]_vars

\* ------------------------------------------- the process-argument strategy
RECURSIVE ProcArgs(_)
\* the dict comprehension: key and value are the first and second piece of the
\* argument split on every '=', a later argument replacing an earlier key
ProcArgs(cmdline) ==
    IF Len(cmdline) = 0 THEN <<>>
    ELSE LET prev  == ProcArgs(SubSeq(cmdline, 1, Len(cmdline) - 1))
             parts == Split(cmdline[Len(cmdline)], "=")
             k     == parts[1]
             v     == IF Len(parts) > 1 THEN Some(parts[2]) ELSE None
         IN  [x \in (DOMAIN prev) \cup {k} |-> IF x = k THEN v ELSE prev[x]]

\* get_league_api_from_process
GetLeagueApiFromProcess(table) ==
    LET found == Matching(table, UxExeName)
    IN  IF Len(found) = 0 THEN [exc |-> Some("RuntimeError"), value |-> None]
        ELSE LET lol_proc  == found[1]
                 proc_args == ProcArgs(lol_proc.cmdline)
             IN  IF KeyAppPort \notin DOMAIN proc_args \/ KeyAuthToken \notin DOMAIN proc_args
                 THEN [exc |-> Some("KeyError"), value |-> None]
                 ELSE LockfileContents(<<lol_proc.name, lol_proc.pid, proc_args[KeyAppPort],
                                         proc_args[KeyAuthToken], Https>>)

\* launch arguments: the two keys with every short value, the keys bare, another flag
ArgValues == BoundedSeqs({"=", "7"}, MaxVal)

Args ==
    {k \o <<"=">> \o v : k \in {KeyAppPort, KeyAuthToken}, v \in ArgValues}
      \cup {KeyAppPort, KeyAuthToken, KeyNoSandbox}

Cmdlines == BoundedSeqs(Args, MaxArgs)

Ux(cmdline) == [name |-> N_LeagueClientUx, pid |-> 13, exe |-> [dir |-> "C:/Riot/LoL", base |-> N_LeagueClientUx], cmdline |-> cmdline]

UxProcTables == {<<>>, <<ClientA>>} \cup {<<Ux(c)>> : c \in Cmdlines}

InitB ==
    /\ procs \in UxProcTables
    /\ ux_result = None
    /\ InitRun

\* one call of get_league_api_from_process
CallGetLeagueApiFromProcess ==
    /\ ux_result = None
    /\ ux_result' = Some(GetLeagueApiFromProcess(procs))
    /\ UNCHANGED procs
    /\ UNCHANGED runVars

NextB == CallGetLeagueApiFromProcess

SpecB == InitB /\ [][NextB]_vars

\* ------------------------------------------------------------------ claims
\* what the run found, read from the environment rather than from the results
NoClientProcess ==
    /\ stages # <<>>
    /\ \A i \in 1..Len(procs) : ~Contains(Lower(procs[i].name), ClientExeName)

Colons(text) == Cardinality({i \in 1..Len(text) : text[i] = ":"})

LockfileRead == file # None /\ Get(file).kind = "text"

LockfileUnavailable == file # None /\ Get(file).kind \in {"missing", "denied"}

LockfileMalformed == LockfileRead /\ Colons(Get(file).text) # 4

Answered200(resp) == resp # None /\ Get(resp).exc = None /\ Get(resp).status = 200

Entered(stage) == \E i \in 1..Len(stages) : stages[i] = stage

CompanionRequested == \E i \in 1..Len(requests) : requests[i].port = LivePort

\* C1: when discovery fails for want of a client process, for a lockfile that is
\* missing or cannot be opened, or for a malformed lockfile, the script prints
\* the friendly message and exits with status 1, nothing is left uncaught and
\* no HTTP request is made.
C1_DiscoveryFailuresCaught ==
    (NoClientProcess \/ LockfileUnavailable \/ LockfileMalformed)
        => /\ pc = "exited"
           /\ err = None
           /\ exit_code = Some(1)
           /\ out = <<MsgNotDetected>>
           /\ requests = <<>>

StageOrder == <<"Locator", "Resolver", "Validator", "Poller", "Companion">>

\* C2: the stages are entered in the order Locator, Resolver, Validator, Poller,
\* Companion, each at most once, and a stage is entered only when every stage
\* before it succeeded: a client process was found, the lockfile was read and
\* has five fields, and the earlier requests were answered with status 200.
C2_StagesInOrderStopAtFailure ==
    /\ Len(stages) <= Len(StageOrder)
    /\ \A i \in 1..Len(stages) : stages[i] = StageOrder[i]
    /\ Len(stages) >= 2 => ~NoClientProcess
    /\ Len(stages) >= 3 => LockfileRead /\ ~LockfileMalformed
    /\ Len(stages) >= 4 => Answered200(summoner_resp)
    /\ Len(stages) >= 5 => Answered200(phase_resp)
    /\ pc \in {"exited", "aborted"} => exit_code = Some(1)

\* a run that the gameflow request's 404 ended: four stages entered, no fifth
C2_Witness ==
    /\ pc = "aborted"
    /\ stages = SubSeq(StageOrder, 1, 4)
    /\ phase_resp # None
    /\ Get(phase_resp).status = 404
    /\ live_resp = None

\* C3: the live-client request on port 2999 is made exactly in the runs whose
\* poll returned true; a run whose poll returned false ends after printing
\* "Not In Game" without that request.
C3_CompanionIffInGame ==
    /\ CompanionRequested => in_game = Some(TRUE)
    /\ pc = "done" => (CompanionRequested <=> in_game = Some(TRUE))
    /\ (pc = "done" /\ in_game = Some(FALSE))
          => /\ out[Len(out)] = MsgNotInGame
             /\ live_resp = None
             /\ ~Entered("Companion")

\* a finished run of a signed-in user whose phase is "ChampSelect"
C3_Witness ==
    /\ pc = "done"
    /\ user # None
    /\ in_game = Some(FALSE)
    /\ Get(phase_resp).text = <<"\"","C","h","a","m","p","S","e","l","e","c","t","\"">>

\* C4: no printed line contains the descriptor's (non-empty) API token.
C4_TokenNeverPrinted ==
    (lc # None /\ Get(lc).api_password # <<>>)
        => \A i \in 1..Len(out) : ~Contains(out[i], Get(lc).api_password)

\* C5: a lockfile text that does not hold exactly five ':'-separated fields
\* makes parsing fail with the constructor's arity error (TypeError, the
\* program's malformed-lockfile error) and yields no descriptor.
C5_MalformedLockfileFails ==
    LockfileMalformed
        => /\ lc = None
           /\ err = Some("TypeError")
           /\ pc = "aborted"
           /\ stages = SubSeq(StageOrder, 1, 2)

\* a six-field lockfile was read
C5_Witness ==
    /\ LockfileRead
    /\ Colons(Get(file).text) = 5
    /\ pc = "aborted"

\* C6: a lockfile text of exactly five ':'-separated fields yields a descriptor
\* whose process name, process id, port, token and protocol are the first to
\* fifth substrings: joined by ':' in that order they give the text back, and
\* none of them holds a ':'.
C6_FiveFieldsInOrder ==
    (LockfileRead /\ Colons(Get(file).text) = 4)
        => /\ lc # None
           /\ LET d == Get(lc)
                  fs == <<d.process_name, d.process_id, d.api_port, d.api_password,
                          d.api_protocol>>
              IN  /\ Join(fs, ":") = Get(file).text
                  /\ \A i \in 1..5 : Colons(fs[i]) = 0

\* a client lockfile with distinct port and token was parsed
C6_Witness ==
    /\ lc # None
    /\ Get(lc).api_port = <<"5","7">>
    /\ Get(lc).api_password = <<"t","0","k">>
    /\ Get(lc).api_protocol = Https
    /\ Get(lc).process_id = <<"7">>

\* C7 as stated: the name returned is the body less exactly one leading and one
\* trailing quote character.
C7_StripsExactlyOneQuote ==
    ingame_user # None => Get(ingame_user) = StripOnce(Get(live_resp).text, Q)

\* C7 as amended: the name returned is the body less its whole run of leading
\* quote characters and its whole run of trailing ones; what is left neither
\* starts nor ends with a quote, and nothing inside it is removed.
C7_StripsAllOuterQuotes ==
    ingame_user # None
        => LET b == Get(live_resp).text
               u == Get(ingame_user)
           IN  \E i, j \in 0..Len(b) :
                  /\ i + j + Len(u) = Len(b)
                  /\ u = SubSeq(b, i + 1, Len(b) - j)
                  /\ \A k \in 1..i : b[k] = Q
                  /\ \A k \in (Len(b) - j + 1)..Len(b) : b[k] = Q
                  /\ u = <<>> \/ (u[1] # Q /\ u[Len(u)] # Q)

\* a body with two leading quotes lost both
C7_Witness ==
    /\ ingame_user = Some(<<"A">>)
    /\ Get(live_resp).text = <<Q, Q, "A", Q>>

DigitValue(c) ==
    CASE c = "0" -> 0 [] c = "1" -> 1 [] c = "2" -> 2 [] c = "3" -> 3 [] c = "4" -> 4
      [] c = "5" -> 5 [] c = "6" -> 6 [] c = "7" -> 7 [] c = "8" -> 8 [] c = "9" -> 9
      [] OTHER -> -1

RECURSIVE Decimal(_)
Decimal(s) == IF Len(s) = 0 THEN 0 ELSE 10 * Decimal(SubSeq(s, 1, Len(s) - 1)) + DigitValue(s[Len(s)])

ValidPort(s) ==
    /\ Len(s) > 0
    /\ \A i \in 1..Len(s) : DigitValue(s[i]) >= 0
    /\ Decimal(s) \in 1..65535

\* C8: a descriptor that reaches the Session Validator has a port in 1..65535
\* and a non-empty token.
C8_DescriptorValidAtValidator ==
    Entered("Validator")
        => /\ ValidPort(Get(lc).api_port)
           /\ Get(lc).api_password # <<>>

\* C9: on status 200 the poll returns true exactly for the 12-character body
\* "InProgress" with its quotes, false for every other body; on any other
\* outcome it raises and returns nothing.
C9_InGameIffQuotedInProgress ==
    phase_resp # None
        => LET r == Get(phase_resp)
               t == r.text
           IN  IF r.exc = None /\ r.status = 200
               THEN in_game = Some(/\ Len(t) = 12
                                   /\ t[1] = Q
                                   /\ t[12] = Q
                                   /\ SubSeq(t, 2, 11) = <<"I","n","P","r","o","g","r","e","s","s">>)
               ELSE in_game = None /\ pc = "aborted" /\ err # None

\* the body InProgress without quotes was answered with 200 and gave false
C9_Witness ==
    /\ Answered200(phase_resp)
    /\ Get(phase_resp).text = <<"I","n","P","r","o","g","r","e","s","s">>
    /\ in_game = Some(FALSE)

\* the text of an argument after its first '=', None when it has none
WholeValue(arg) ==
    IF FirstIndex(arg, "=") = 0 THEN None
    ELSE Some(SubSeq(arg, FirstIndex(arg, "=") + 1, Len(arg)))

KeyOf(arg) ==
    IF FirstIndex(arg, "=") = 0 THEN arg ELSE SubSeq(arg, 1, FirstIndex(arg, "=") - 1)

\* the whole value of the last argument with key k
LastWholeValue(cmdline, k) ==
    LET i == CHOOSE i \in 1..Len(cmdline) :
                 /\ KeyOf(cmdline[i]) = k
                 /\ \A j \in (i + 1)..Len(cmdline) : KeyOf(cmdline[j]) # k
    IN  WholeValue(cmdline[i])

\* C10: the descriptor built from the UI process's arguments has as port and
\* token the whole values of --app-port and --remoting-auth-token (None for a
\* key given without '='), also when a value holds '='; with either key absent
\* the call fails with KeyError.
C10_ArgsMapToWholeValues ==
    (ux_result # None /\ Len(Matching(procs, UxExeName)) > 0)
        => LET cmdline == Matching(procs, UxExeName)[1].cmdline
               res == Get(ux_result)
               Has(k) == \E i \in 1..Len(cmdline) : KeyOf(cmdline[i]) = k
           IN  IF Has(KeyAppPort) /\ Has(KeyAuthToken)
               THEN /\ res.exc = None
                    /\ Get(res.value).api_port = LastWholeValue(cmdline, KeyAppPort)
                    /\ Get(res.value).api_password = LastWholeValue(cmdline, KeyAuthToken)
                    /\ Get(res.value).api_protocol = Https
               ELSE res.exc = Some("KeyError") /\ res.value = None

====
